---- MODULE Spec2Model ----
(***************************************************************************)
(* The HTTPS connector of rquest (src/src/tls/connector/mod.rs): the layer  *)
(* settings, the shared TLS session cache, the per-connection TLS setup     *)
(* and the connector's call, the layer and its connectors, the stream's     *)
(* connection metadata, and the Chrome 117 and Safari iOS 17.4.1 profiles   *)
(* (src/src/tls/impersonate): their HTTP/2 settings and default headers.    *)
(*                                                                          *)
(* The session cache itself (mod cache: SessionCache, SessionKey) is not    *)
(* among the sources; its three operations are modelled from the            *)
(* specification's section 4.4 and data model.                              *)
(***************************************************************************)
EXTENDS Integers, Sequences, FiniteSets, TLC

VARIABLES
    settings,      \* HttpsLayerSettings given to with_connector_and_settings
    cache,         \* Inner.cache: Option<Arc<Mutex<SessionCache>>>
    key_index_ok,  \* the process-wide LazyLock result of Ssl::new_ex_index
    inner,         \* the connector's Inner: its hold on the cache, the callbacks registered
    conns,         \* the futures returned by call, one per connection
    nextSession,   \* the number of sessions the TLS engine has produced
    workload,      \* what the caller does: the URIs it calls and how many calls it makes
    client,        \* the client of one request: its profile, headers, stream and preface
    layer,         \* the HttpsLayer the caller keeps and the connectors made from it
    hist           \* the cache operations performed, in order

vars == <<settings, cache, key_index_ok, inner, conns, nextSession, workload, client,
         layer, hist>>

------------------------------------------------------------------------------
(* Bounds *)

\* the largest capacity given to the settings builder
MaxCapacity == 2
\* the number of cache operations of the cache-level specification
MaxOps == 6
\* the number of calls made on the connector, over all its URIs
MaxCalls == 1
\* the number of calls made on the connector, to hosts that share sessions
MaxConns == 3
\* the number of sessions the peers issue, over all connections
MaxSessions == 2
\* the number of calls made on the connector, one after the other, to hosts
\* that differ in case and brackets
MaxHostCalls == 2
\* the number of times the header initializer runs on one header map
MaxInits == 2
\* the number of connectors made from one layer, clones included
MaxConnectors == 2

------------------------------------------------------------------------------
(* Option<T> *)

None == <<>>
Some(x) == <<x>>
IsSome(o) == o /= <<>>
Unwrap(o) == o[1]

Range(q) == {q[i] : i \in 1..Len(q)}

------------------------------------------------------------------------------
(* URIs.  A Uri is [scheme, host, port]: scheme is Option<Scheme>, host is  *)
(* Option<&str>, port is Option<u16>.  A host is the sequence of its         *)
(* characters.                                                               *)

HostA == <<"a">>
HostB == <<"b">>
HostV6 == <<"[", ":", ":", "1", "]">>
Empty == <<>>

Schemes == {None, Some("http"), Some("https"), Some("wss")}
Hosts == {None, Some(Empty), Some(HostA), Some(HostV6)}

Uri(scheme, host, port) == [scheme |-> scheme, host |-> host, port |-> port]

\* the URIs given to call
Uris ==
    {Uri(s, Some(HostA), None) : s \in Schemes}
    \cup {Uri(Some("https"), h, None) : h \in Hosts}
    \cup {Uri(Some("https"), Some(HostB), Some(8443))}

\* hosts that exercise the normalisation of call: an upper-case name, a
\* bracketed host whose interior is no IPv6 address, and empty brackets
HostUpper == <<"A">>
HostBracketed == <<"[", "a", "]">>
HostBrackets == <<"[", "]">>

\* the URIs given to call by the host-normalisation specification
HostUris ==
    {Uri(Some("https"), Some(h), None) :
        h \in {HostA, HostUpper, HostV6, HostBracketed, HostBrackets}}

\* s.parse::<net::Ipv6Addr>().is_ok(), on the hosts of the model
Ipv6Literals == {<<":", ":", "1">>}
is_ipv6(s) == s \in Ipv6Literals

\* SessionKey { host, port }
SessionKey(host, port) == [host |-> host, port |-> port]

\* uri.port_u16().unwrap_or(443)
DefaultPort == 443
port_or_default(uri) == IF IsSome(uri.port) THEN Unwrap(uri.port) ELSE DefaultPort

\* mutant: only https counts as a TLS scheme
is_tls_scheme_https_only(uri) == uri.scheme = Some("https")

\* call: scheme is https or wss; no scheme is not a TLS scheme
is_tls_scheme(uri) ==
    IF IsSome(uri.scheme)
    THEN Unwrap(uri.scheme) = "https" \/ Unwrap(uri.scheme) = "wss"
    ELSE FALSE

\* mutant: the brackets are stripped whatever they enclose
strip_brackets_unparsed(host) ==
    IF host /= Empty
    THEN LET last == Len(host)
         IN  IF host[1] = "[" /\ host[last] = "]" /\ last > 1
             THEN SubSeq(host, 2, last - 1)
             ELSE host
    ELSE host

\* call: the brackets around an IPv6 literal are stripped
strip_brackets(host) ==
    IF host /= Empty
    THEN LET last == Len(host)
         IN  IF host[1] = "[" /\ host[last] = "]"
                  /\ is_ipv6(SubSeq(host, 2, last - 1))
             THEN SubSeq(host, 2, last - 1)
             ELSE host
    ELSE host

\* every key a connection of the model can build
Keys ==
    {SessionKey(strip_brackets(Unwrap(u.host)), port_or_default(u)) :
        u \in {v \in Uris \cup HostUris : IsSome(v.host)}}

------------------------------------------------------------------------------
(* SessionCache: a bounded FIFO queue of sessions per key.  A queue is a    *)
(* sequence, oldest session first.                                          *)

with_capacity(capacity) ==
    [capacity |-> capacity, sessions |-> [k \in Keys |-> <<>>]]

\* mutant: a full queue drops the session being inserted, not the oldest
insert_evict_newest(c, key, session) ==
    LET q == c.sessions[key]
    IN  IF Len(q) >= c.capacity
        THEN c
        ELSE [c EXCEPT !.sessions[key] = Append(q, session)]

\* insert(key, session): append; past capacity the oldest is evicted
insert(c, key, session) ==
    LET q == Append(c.sessions[key], session)
    IN  [c EXCEPT !.sessions[key] = IF Len(q) > c.capacity THEN Tail(q) ELSE q]

\* mutant: the oldest retained session is handed out
get_oldest(c, key) ==
    LET q == c.sessions[key]
    IN  IF q = <<>>
        THEN [session |-> None, cache |-> c]
        ELSE [session |-> Some(Head(q)),
              cache   |-> [c EXCEPT !.sessions[key] = Tail(q)]]

\* get(key) (the specification's take): the most recently inserted session
\* of the key is returned and removed
get(c, key) ==
    LET q == c.sessions[key]
    IN  IF q = <<>>
        THEN [session |-> None, cache |-> c]
        ELSE [session |-> Some(q[Len(q)]),
              cache   |-> [c EXCEPT !.sessions[key] = SubSeq(q, 1, Len(q) - 1)]]

------------------------------------------------------------------------------
(* HttpsLayerSettings and its builder *)

DefaultCapacity == 8

HttpsLayerSettings_default ==
    [session_cache_capacity |-> DefaultCapacity, session_cache |-> TRUE]

session_cache_capacity(s, capacity) == [s EXCEPT !.session_cache_capacity = capacity]

session_cache(s, enable) == [s EXCEPT !.session_cache = enable]

\* the settings a caller can build; capacities start at 1
SettingsSet ==
    {session_cache(s, e) :
        s \in {HttpsLayerSettings_default}
              \cup {session_cache_capacity(HttpsLayerSettings_default, n) : n \in 1..MaxCapacity},
        e \in BOOLEAN}

\* mutant: the capacity of the settings is not passed on
with_connector_and_settings_default_capacity(s) ==
    [cache        |-> IF s.session_cache THEN Some(with_capacity(DefaultCapacity)) ELSE None,
     callback     |-> FALSE,
     ssl_callback |-> FALSE]

\* mutant: the cache is made and the new-session callback registered
\* whatever the settings say
with_connector_and_settings_always_cache(s) ==
    [cache        |-> Some(with_capacity(s.session_cache_capacity)),
     callback     |-> FALSE,
     ssl_callback |-> FALSE]

\* HttpsLayer::with_connector_and_settings: the Inner of the new layer.
\* callback / ssl_callback say whether a callback is registered.
with_connector_and_settings(s) ==
    [cache        |-> IF s.session_cache
                      THEN Some(with_capacity(s.session_cache_capacity))
                      ELSE None,
     callback     |-> FALSE,
     ssl_callback |-> FALSE]

\* the Inner of a layer or connector, as the model keeps it: whether it
\* holds the Arc of the layer's cache and which callbacks are registered
InnerOf(made) ==
    [cache        |-> IsSome(made.cache),
     callback     |-> made.callback,
     ssl_callback |-> made.ssl_callback]

\* mutant: the session is stored under one key, whatever the ex-data holds
new_session_callback_fixed_key(ch, ex_data, session) ==
    IF IsSome(ex_data) /\ IsSome(ch)
    THEN Some(insert(Unwrap(ch), SessionKey(HostA, DefaultPort), session))
    ELSE ch

\* mutant: the session is not stored
new_session_callback_no_insert(ch, ex_data, session) == ch

\* the closure given to set_new_session_callback: the session goes to the
\* cache under the key found in the handle's ex-data, if there is one
new_session_callback(ch, ex_data, session) ==
    IF IsSome(ex_data) /\ IsSome(ch)
    THEN Some(insert(Unwrap(ch), Unwrap(ex_data), session))
    ELSE ch

\* mutant: the cache is read without its lock being held over the removal
lookup_session_peek(ch, key) ==
    IF IsSome(ch)
    THEN [session |-> get(Unwrap(ch), key).session, cache |-> ch]
    ELSE [session |-> None, cache |-> ch]

\* setup_ssl's cache access: cache.lock().get(&key) when there is a cache
lookup_session(ch, key) ==
    IF IsSome(ch)
    THEN LET r == get(Unwrap(ch), key)
         IN  [session |-> r.session, cache |-> Some(r.cache)]
    ELSE [session |-> None, cache |-> ch]

------------------------------------------------------------------------------
(* Inner::setup_ssl.  The steps that can return an error are configure,     *)
(* the configuration callback, set_session, key_index, into_ssl and the     *)
(* raw-handle callback; fail names the step whose callee returns an error   *)
(* on this run ("none": no callee fails).  key_index fails exactly when     *)
(* the process-wide index could not be created.                             *)

FailPoints == {"none", "configure", "callback", "set_session", "into_ssl", "ssl_callback"}

\* mutant: the error of the configuration callback is dropped
callback_fails_ignored(inn, fail) == FALSE

\* callback(&mut conf, uri)?  when a callback is registered
callback_fails(inn, fail) == inn.callback /\ fail = "callback"

\* mutant: the error of the raw-handle callback is dropped
ssl_callback_fails_ignored(inn, fail) == FALSE

\* ssl_callback(&mut ssl, uri)?  when a callback is registered
ssl_callback_fails(inn, fail) == inn.ssl_callback /\ fail = "ssl_callback"

\* the result of setup_ssl: the handle (its ex-data and the session set on
\* its configuration) or an error, the cache after the call, the session
\* the cache handed out, and the steps performed
SetupResult(ok, error, ch, taken, session, ex_data, log) ==
    [ok |-> ok, error |-> error, cache |-> ch, taken |-> taken,
     session |-> session, ex_data |-> ex_data, log |-> log]

\* mutant: the cache is consulted first, before configure and the callback
setup_ssl_lookup_first(inn, ch, idx_ok, uri, host, fail) ==
    LET key  == SessionKey(host, port_or_default(uri))
        look == lookup_session(ch, key)
        log0 == IF IsSome(ch) THEN <<"cache_get">> ELSE <<>>
        log1 == Append(log0, "configure")
        log2 == IF inn.callback THEN Append(log1, "callback") ELSE log1
        log4 == IF IsSome(look.session) THEN Append(log2, "set_session") ELSE log2
        log5 == Append(log4, "key_index")
        log7 == Append(Append(log5, "set_ex_data"), "into_ssl")
        log8 == IF inn.ssl_callback THEN Append(log7, "ssl_callback") ELSE log7
    IN  IF fail = "configure"
        THEN SetupResult(FALSE, Some("configure"), look.cache, look.session, None, None, log1)
        ELSE IF callback_fails(inn, fail)
        THEN SetupResult(FALSE, Some("callback"), look.cache, look.session, None, None, log2)
        ELSE IF IsSome(look.session) /\ fail = "set_session"
        THEN SetupResult(FALSE, Some("set_session"), look.cache, look.session, None, None, log4)
        ELSE IF ~idx_ok
        THEN SetupResult(FALSE, Some("key_index"), look.cache, look.session,
                         look.session, None, log5)
        ELSE IF fail = "into_ssl"
        THEN SetupResult(FALSE, Some("into_ssl"), look.cache, look.session,
                         look.session, Some(key), log7)
        ELSE IF ssl_callback_fails(inn, fail)
        THEN SetupResult(FALSE, Some("ssl_callback"), look.cache, look.session,
                         look.session, Some(key), log8)
        ELSE SetupResult(TRUE, None, look.cache, look.session,
                         look.session, Some(key), log8)

setup_ssl(inn, ch, idx_ok, uri, host, fail) ==
    LET key  == SessionKey(host, port_or_default(uri))
        look == lookup_session(ch, key)
        log1 == <<"configure">>
        log2 == IF inn.callback THEN Append(log1, "callback") ELSE log1
        log3 == IF IsSome(ch) THEN Append(log2, "cache_get") ELSE log2
        log4 == IF IsSome(look.session) THEN Append(log3, "set_session") ELSE log3
        log5 == Append(log4, "key_index")
        log6 == Append(log5, "set_ex_data")
        log7 == Append(log6, "into_ssl")
        log8 == IF inn.ssl_callback THEN Append(log7, "ssl_callback") ELSE log7
    IN  IF fail = "configure"
        THEN SetupResult(FALSE, Some("configure"), ch, None, None, None, log1)
        ELSE IF callback_fails(inn, fail)
        THEN SetupResult(FALSE, Some("callback"), ch, None, None, None, log2)
        ELSE IF IsSome(look.session) /\ fail = "set_session"
        THEN SetupResult(FALSE, Some("set_session"), look.cache, look.session, None, None, log4)
        ELSE IF ~idx_ok
        THEN SetupResult(FALSE, Some("key_index"), look.cache, look.session,
                         look.session, None, log5)
        ELSE IF fail = "into_ssl"
        THEN SetupResult(FALSE, Some("into_ssl"), look.cache, look.session,
                         look.session, Some(key), log7)
        ELSE IF ssl_callback_fails(inn, fail)
        THEN SetupResult(FALSE, Some("ssl_callback"), look.cache, look.session,
                         look.session, Some(key), log8)
        ELSE SetupResult(TRUE, None, look.cache, look.session,
                         look.session, Some(key), log8)

------------------------------------------------------------------------------
(* The client of one request.  NoClient is the client of the specifications *)
(* that follow the connector only: nothing is selected, built or sent.      *)

NoClient ==
    [impersonate    |-> None,    \* the profile selected
     settings_order |-> None,    \* ImpersonateSettings.settings_order given to get_settings
     headers        |-> <<>>,    \* the request's HeaderMap
     initialized    |-> 0,       \* the runs of the profile's header initializer
     stream         |-> None,    \* the MaybeHttpsStream the connector returned
     connected      |-> None,    \* the Connected that connected() returned
     preface        |-> None]    \* the frames of the HTTP/2 preface sent

------------------------------------------------------------------------------
(* HttpsConnector::call and the future it returns.  The future suspends at  *)
(* the plaintext connect and at the handshake; it can be dropped at either. *)

ConnIds == 1..(IF MaxCalls > MaxConns THEN MaxCalls ELSE MaxConns)

IdleConn ==
    [pc                |-> "idle",     \* idle, connecting, handshaking, done, dropped
     uri               |-> None,
     connector         |-> 0,          \* the connector of the layer that call was made on
     tls_setup         |-> None,       \* Some(the Inner cloned by call) for a TLS scheme
     connect_invoked   |-> FALSE,      \* self.http.call(uri) was called
     connects          |-> 0,          \* the calls of self.http.call made for this connection
     stream            |-> "none",     \* the plaintext stream: none, held, returned, released
     host              |-> None,       \* the host given to setup_ssl
     taken             |-> None,       \* the session the cache handed out
     session           |-> None,       \* the session set on the configuration
     ex_data           |-> None,       \* the SessionKey attached to the handle
     log               |-> <<>>,       \* the steps of setup_ssl performed
     fail              |-> "none",     \* the step performed whose callee returned an error
     error             |-> None,       \* the step setup_ssl returned an error from
     handshake_started |-> FALSE,
     result            |-> "pending",  \* Http, Https, or the error returned
     dropped_at        |-> "none",     \* the suspension point the future was dropped at
     tickets           |-> 0,          \* new sessions received on the established stream
     inserted          |-> {},         \* sessions this connection's steps put into the cache
     removed           |-> {}]         \* sessions this connection's steps removed from it

\* the sessions a cache holds
Sessions(ch) ==
    IF IsSome(ch) THEN UNION {Range(Unwrap(ch).sessions[k]) : k \in Keys} ELSE {}

\* conn after one of its steps changed the cache from ch to ch2
Touched(conn, ch, ch2) ==
    [conn EXCEPT !.inserted = @ \cup (Sessions(ch2) \ Sessions(ch)),
                 !.removed  = @ \cup (Sessions(ch) \ Sessions(ch2))]

Init ==
    /\ settings \in SettingsSet
    /\ cache = with_connector_and_settings(settings).cache
    /\ key_index_ok \in BOOLEAN
    /\ inner = InnerOf(with_connector_and_settings(settings))
    /\ conns = [c \in ConnIds |-> IdleConn]
    /\ nextSession = 0
    /\ workload = [uris |-> Uris, calls |-> MaxCalls]
    /\ client = NoClient
    /\ layer = None
    /\ hist = <<>>

\* HttpsConnector::set_callback
set_callback ==
    /\ ~inner.callback
    /\ inner' = [inner EXCEPT !.callback = TRUE]
    /\ UNCHANGED <<settings, cache, key_index_ok, conns, nextSession, workload, client, layer, hist>>

\* HttpsConnector::set_ssl_callback
set_ssl_callback ==
    /\ ~inner.ssl_callback
    /\ inner' = [inner EXCEPT !.ssl_callback = TRUE]
    /\ UNCHANGED <<settings, cache, key_index_ok, conns, nextSession, workload, client, layer, hist>>

\* call(uri), up to the creation of the future: the Inner is cloned for a
\* TLS scheme and the plaintext service is called.  Calls are made one after
\* the other (call takes &mut self).
call(c, uri) ==
    /\ conns[c].pc = "idle"
    /\ c <= workload.calls
    /\ uri \in workload.uris
    /\ \A d \in ConnIds : d < c => conns[d].pc /= "idle"
    /\ conns' = [conns EXCEPT ![c] =
           [@ EXCEPT !.pc = "connecting",
                     !.uri = Some(uri),
                     !.tls_setup = IF is_tls_scheme(uri) THEN Some(inner) ELSE None,
                     !.connect_invoked = TRUE,
                     !.connects = @ + 1]]
    /\ UNCHANGED <<settings, cache, key_index_ok, inner, nextSession, workload, client, layer, hist>>

\* mutant: a failed connect is tried once more
connect_err_retry(c) ==
    /\ conns[c].pc = "connecting"
    /\ conns' = [conns EXCEPT ![c] =
           IF @.connects < 2
           THEN [@ EXCEPT !.connects = @ + 1]
           ELSE [@ EXCEPT !.pc = "done", !.result = "TransportError"]]
    /\ UNCHANGED <<settings, cache, key_index_ok, inner, nextSession, workload, client, layer, hist>>

\* connect.await resolves to an error
connect_err(c) ==
    /\ conns[c].pc = "connecting"
    /\ conns' = [conns EXCEPT ![c] =
           [@ EXCEPT !.pc = "done", !.result = "TransportError"]]
    /\ UNCHANGED <<settings, cache, key_index_ok, inner, nextSession, workload, client, layer, hist>>

\* connect.await resolves to a stream and the scheme is not a TLS scheme
connect_ok_plain(c) ==
    /\ conns[c].pc = "connecting"
    /\ conns[c].tls_setup = None
    /\ conns' = [conns EXCEPT ![c] =
           [@ EXCEPT !.pc = "done", !.result = "Http", !.stream = "returned"]]
    /\ UNCHANGED <<settings, cache, key_index_ok, inner, nextSession, workload, client, layer, hist>>

\* connect.await resolves to a stream, the scheme is a TLS scheme and the
\* URI has no host
connect_ok_no_host(c) ==
    /\ conns[c].pc = "connecting"
    /\ IsSome(conns[c].tls_setup)
    /\ Unwrap(conns[c].uri).host = None
    /\ conns' = [conns EXCEPT ![c] =
           [@ EXCEPT !.pc = "done", !.result = "UriError", !.stream = "released"]]
    /\ UNCHANGED <<settings, cache, key_index_ok, inner, nextSession, workload, client, layer, hist>>

\* connect.await resolves to a stream and the scheme is a TLS scheme: the
\* host is normalised, setup_ssl runs, and the handshake is started
connect_ok_tls(c, fail) ==
    /\ conns[c].pc = "connecting"
    /\ IsSome(conns[c].tls_setup)
    /\ IsSome(Unwrap(conns[c].uri).host)
    /\ LET uri  == Unwrap(conns[c].uri)
           host == strip_brackets(Unwrap(uri.host))
           inn  == Unwrap(conns[c].tls_setup)
           r    == setup_ssl(inn, IF inn.cache THEN cache ELSE None,
                             key_index_ok, uri, host, fail)
           ch2  == IF inn.cache THEN r.cache ELSE cache
           conn == [Touched(conns[c], cache, ch2) EXCEPT
                       !.host = Some(host), !.taken = r.taken, !.session = r.session,
                       !.ex_data = r.ex_data, !.log = r.log,
                       !.fail = IF fail \in Range(r.log) THEN fail ELSE "none",
                       !.error = r.error]
       IN  /\ cache' = ch2
           /\ conns' = [conns EXCEPT ![c] =
                  IF r.ok
                  THEN [conn EXCEPT !.pc = "handshaking", !.stream = "held",
                                    !.handshake_started = TRUE]
                  ELSE [conn EXCEPT !.pc = "done", !.result = "SetupError",
                                    !.stream = "released"]]
    /\ UNCHANGED <<settings, key_index_ok, inner, nextSession, workload, client, layer, hist>>

\* SslStreamBuilder::connect().await resolves to an error
handshake_err(c) ==
    /\ conns[c].pc = "handshaking"
    /\ conns' = [conns EXCEPT ![c] =
           [@ EXCEPT !.pc = "done", !.result = "HandshakeError", !.stream = "released"]]
    /\ UNCHANGED <<settings, cache, key_index_ok, inner, nextSession, workload, client, layer, hist>>

\* SslStreamBuilder::connect().await resolves to the TLS stream
handshake_ok(c) ==
    /\ conns[c].pc = "handshaking"
    /\ conns' = [conns EXCEPT ![c] =
           [@ EXCEPT !.pc = "done", !.result = "Https", !.stream = "returned"]]
    /\ UNCHANGED <<settings, cache, key_index_ok, inner, nextSession, workload, client, layer, hist>>

\* the engine hands a new session of an established connection to the
\* callback registered by with_connector_and_settings (registered only when
\* the session cache is enabled).  The engine produces a session only for
\* a handshake that has completed.
new_session(c) ==
    /\ settings.session_cache
    /\ conns[c].result = "Https"
    /\ nextSession < MaxSessions
    /\ nextSession' = nextSession + 1
    /\ cache' = new_session_callback(cache,
                    IF key_index_ok THEN conns[c].ex_data ELSE None, nextSession')
    /\ conns' = [conns EXCEPT ![c] =
           [Touched(conns[c], cache, cache') EXCEPT !.tickets = @ + 1]]
    /\ UNCHANGED <<settings, key_index_ok, inner, workload, client, layer, hist>>

\* the future is dropped while it is suspended
drop(c) ==
    /\ conns[c].pc \in {"connecting", "handshaking"}
    /\ conns' = [conns EXCEPT ![c] =
           [@ EXCEPT !.pc = "dropped", !.dropped_at = conns[c].pc, !.stream = "released"]]
    /\ UNCHANGED <<settings, cache, key_index_ok, inner, nextSession, workload, client, layer, hist>>

Next ==
    \/ set_callback
    \/ set_ssl_callback
    \/ \E c \in ConnIds, uri \in Uris : call(c, uri)
    \/ \E c \in ConnIds : connect_err(c)
    \/ \E c \in ConnIds : connect_ok_plain(c)
    \/ \E c \in ConnIds : connect_ok_no_host(c)
    \/ \E c \in ConnIds, fail \in FailPoints : connect_ok_tls(c, fail)
    \/ \E c \in ConnIds : handshake_err(c)
    \/ \E c \in ConnIds : handshake_ok(c)
    \/ \E c \in ConnIds : new_session(c)
    \/ \E c \in ConnIds : drop(c)

Spec == Init /\ [][Next]_vars

------------------------------------------------------------------------------
(* The same connector, called MaxConns times for one https URI, with no     *)
(* callback registered: the connections share the session cache and race    *)
(* for the sessions of one key.                                             *)

SharedUris == {Uri(Some("https"), Some(HostA), None)}

InitShared ==
    /\ settings \in SettingsSet
    /\ cache = with_connector_and_settings(settings).cache
    /\ key_index_ok \in BOOLEAN
    /\ inner = InnerOf(with_connector_and_settings(settings))
    /\ conns = [c \in ConnIds |-> IdleConn]
    /\ nextSession = 0
    /\ workload = [uris |-> SharedUris, calls |-> MaxConns]
    /\ client = NoClient
    /\ layer = None
    /\ hist = <<>>

NextShared ==
    \/ \E c \in ConnIds, uri \in Uris : call(c, uri)
    \/ \E c \in ConnIds : connect_err(c)
    \/ \E c \in ConnIds, fail \in FailPoints : connect_ok_tls(c, fail)
    \/ \E c \in ConnIds : handshake_err(c)
    \/ \E c \in ConnIds : handshake_ok(c)
    \/ \E c \in ConnIds : new_session(c)
    \/ \E c \in ConnIds : drop(c)

SpecShared == InitShared /\ [][NextShared]_vars

------------------------------------------------------------------------------
(* The host-normalisation specification: the connector, with the default    *)
(* settings and no callback, is called MaxHostCalls times, one call after   *)
(* the other has returned, for https URIs whose hosts differ in letter case *)
(* and in their brackets.                                                   *)

InitHost ==
    /\ settings = HttpsLayerSettings_default
    /\ cache = with_connector_and_settings(settings).cache
    /\ key_index_ok = TRUE
    /\ inner = InnerOf(with_connector_and_settings(settings))
    /\ conns = [c \in ConnIds |-> IdleConn]
    /\ nextSession = 0
    /\ workload = [uris |-> HostUris, calls |-> MaxHostCalls]
    /\ client = NoClient
    /\ layer = None
    /\ hist = <<>>

\* call(uri) made once the futures of the earlier calls have resolved
call_in_turn(c, uri) ==
    /\ \A d \in ConnIds : d < c => conns[d].pc = "done"
    /\ call(c, uri)

NextHost ==
    \/ \E c \in ConnIds, uri \in HostUris : call_in_turn(c, uri)
    \/ \E c \in ConnIds : connect_err(c)
    \/ \E c \in ConnIds, fail \in FailPoints : connect_ok_tls(c, fail)
    \/ \E c \in ConnIds : handshake_err(c)
    \/ \E c \in ConnIds : handshake_ok(c)
    \/ \E c \in ConnIds : new_session(c)

SpecHost == InitHost /\ [][NextHost]_vars

------------------------------------------------------------------------------
(* MaybeHttpsStream and its connection metadata.  A Connected is the        *)
(* metadata of a connection: the protocol negotiated, whether it goes       *)
(* through a proxy, and the extra information of the transport.             *)

\* Connected::negotiated_h2
negotiated_h2(connected) == [connected EXCEPT !.alpn = "H2"]

\* what the plaintext transport reports for its stream: no protocol is
\* negotiated by a plaintext connect
TransportConnected ==
    {[alpn |-> "None", is_proxied |-> p, extra |-> e] :
        p \in BOOLEAN, e \in {None, Some("HttpInfo")}}

\* ssl().selected_alpn_protocol() of an established TLS stream
AlpnOutcomes == {None, Some("h2"), Some("http/1.1")}

\* MaybeHttpsStream::Http(T) and MaybeHttpsStream::Https(SslStream<T>)
Http(t) == [variant |-> "Http", transport |-> t, selected_alpn_protocol |-> None]
Https(t, alpn) == [variant |-> "Https", transport |-> t, selected_alpn_protocol |-> alpn]

Streams ==
    {Http(t) : t \in TransportConnected}
    \cup {Https(t, a) : t \in TransportConnected, a \in AlpnOutcomes}

\* mutant: any protocol selected by ALPN counts as HTTP/2
connected_any_alpn(stream) ==
    IF stream.variant = "Http"
    THEN stream.transport
    ELSE IF IsSome(stream.selected_alpn_protocol)
         THEN negotiated_h2(stream.transport)
         ELSE stream.transport

\* MaybeHttpsStream::connected
connected(stream) ==
    IF stream.variant = "Http"
    THEN stream.transport
    ELSE IF stream.selected_alpn_protocol = Some("h2")
         THEN negotiated_h2(stream.transport)
         ELSE stream.transport

------------------------------------------------------------------------------
(* The profiles: get_settings of chrome::v117 and safari::safari_ios_17_4_1 *)
(* and the HTTP/2 preface the encoder sends for their Http2FrameSettings.   *)
(* The encoder and ImpersonateSettings are not among the sources; the       *)
(* encoder is modelled from the specification's section 4.3.                *)

\* the lists of SETTINGS identifiers handed in as ImpersonateSettings.settings_order
OrderWithConcurrent ==
    <<"HEADER_TABLE_SIZE", "ENABLE_PUSH", "MAX_CONCURRENT_STREAMS",
      "INITIAL_WINDOW_SIZE", "MAX_HEADER_LIST_SIZE">>
OrderOfFour ==
    <<"HEADER_TABLE_SIZE", "ENABLE_PUSH", "INITIAL_WINDOW_SIZE", "MAX_HEADER_LIST_SIZE">>
OrderOfThree == <<"ENABLE_PUSH", "INITIAL_WINDOW_SIZE", "MAX_CONCURRENT_STREAMS">>
SettingsOrders == {OrderWithConcurrent, OrderOfFour, OrderOfThree}

ImpersonateSettings(order) == [settings_order |-> order]

\* mutant: the two window sizes of the Chrome profile are exchanged
get_settings_windows_swapped(impersonate, s) ==
    IF impersonate = "Chrome117"
    THEN [http2 |-> [initial_stream_window_size     |-> Some(15728640),
                     initial_connection_window_size |-> Some(6291456),
                     max_concurrent_streams         |-> None,
                     max_header_list_size           |-> Some(262144),
                     header_table_size              |-> Some(65536),
                     enable_push                    |-> Some(FALSE),
                     settings_order                 |-> s.settings_order],
          header_initializer |-> impersonate]
    ELSE [http2 |-> [initial_stream_window_size     |-> Some(2097152),
                     initial_connection_window_size |-> Some(10551295),
                     max_concurrent_streams         |-> Some(100),
                     max_header_list_size           |-> None,
                     header_table_size              |-> None,
                     enable_push                    |-> Some(FALSE),
                     settings_order                 |-> s.settings_order],
          header_initializer |-> impersonate]

\* get_settings(settings) of the profile's file: the Http2FrameSettings and
\* the header initializer
get_settings(impersonate, s) ==
    IF impersonate = "Chrome117"
    THEN [http2 |-> [initial_stream_window_size     |-> Some(6291456),
                     initial_connection_window_size |-> Some(15728640),
                     max_concurrent_streams         |-> None,
                     max_header_list_size           |-> Some(262144),
                     header_table_size              |-> Some(65536),
                     enable_push                    |-> Some(FALSE),
                     settings_order                 |-> s.settings_order],
          header_initializer |-> impersonate]
    ELSE [http2 |-> [initial_stream_window_size     |-> Some(2097152),
                     initial_connection_window_size |-> Some(10551295),
                     max_concurrent_streams         |-> Some(100),
                     max_header_list_size           |-> None,
                     header_table_size              |-> None,
                     enable_push                    |-> Some(FALSE),
                     settings_order                 |-> s.settings_order],
          header_initializer |-> impersonate]

\* the value the struct holds for a SETTINGS identifier; a flag is sent as
\* 0 or 1
setting_value(http2, id) ==
    CASE id = "HEADER_TABLE_SIZE"      -> http2.header_table_size
      [] id = "ENABLE_PUSH"            ->
             IF IsSome(http2.enable_push)
             THEN Some(IF Unwrap(http2.enable_push) THEN 1 ELSE 0)
             ELSE None
      [] id = "MAX_CONCURRENT_STREAMS" -> http2.max_concurrent_streams
      [] id = "INITIAL_WINDOW_SIZE"    -> http2.initial_stream_window_size
      [] id = "MAX_HEADER_LIST_SIZE"   -> http2.max_header_list_size

\* the SETTINGS frame: the identifiers of settings_order, in that order,
\* with the values present; an identifier without a value is left out
RECURSIVE encode_settings(_, _)
encode_settings(http2, order) ==
    IF order = <<>>
    THEN <<>>
    ELSE LET v == setting_value(http2, Head(order))
         IN  (IF IsSome(v) THEN <<[id |-> Head(order), value |-> Unwrap(v)]>> ELSE <<>>)
             \o encode_settings(http2, Tail(order))

\* the connection WINDOW_UPDATE: sent only when the connection window
\* exceeds the default 65535, with the difference as its increment
encode_window_update(http2) ==
    IF IsSome(http2.initial_connection_window_size)
       /\ Unwrap(http2.initial_connection_window_size) > 65535
    THEN <<[frame |-> "WINDOW_UPDATE",
            delta |-> Unwrap(http2.initial_connection_window_size) - 65535]>>
    ELSE <<>>

\* the preface: the SETTINGS frame, then the WINDOW_UPDATE if there is one
encode_preface(http2) ==
    <<[frame |-> "SETTINGS", settings |-> encode_settings(http2, http2.settings_order)]>>
    \o encode_window_update(http2)

------------------------------------------------------------------------------
(* The default headers.  A HeaderMap is the sequence of its entries in      *)
(* insertion order, each a header name and its value.                       *)

Header(name, value) == [name |-> name, value |-> value]

\* mutant: the value is added to the map, whatever it holds for the name
HeaderMap_append(headers, name, value) == Append(headers, Header(name, value))

\* headers.insert(name, value): the value replaces the one the map holds
\* for the name; a new name is added at the end
HeaderMap_insert(headers, name, value) ==
    IF \E i \in 1..Len(headers) : headers[i].name = name
    THEN [i \in 1..Len(headers) |->
             IF headers[i].name = name THEN Header(name, value) ELSE headers[i]]
    ELSE Append(headers, Header(name, value))

\* the inserts of chrome::v117::header_initializer, in the order made
ChromeHeaders ==
    <<Header("sec-ch-ua",
             "\"Google Chrome\";v=\"117\", \"Not;A=Brand\";v=\"8\", \"Chromium\";v=\"117\""),
      Header("sec-ch-ua-mobile", "?0"),
      Header("sec-ch-ua-platform", "\"Windows\""),
      Header("upgrade-insecure-requests", "1"),
      Header("user-agent",
             "Mozilla/5.0 (Windows NT 10.0; Win64; x64) AppleWebKit/537.36 (KHTML, like Gecko) Chrome/117.0.0.0 Safari/537.36"),
      Header("accept",
             "text/html,application/xhtml+xml,application/xml;q=0.9,image/avif,image/webp,image/apng,*/*;q=0.8,application/signed-exchange;v=b3;q=0.7"),
      Header("sec-fetch-site", "none"),
      Header("sec-fetch-mode", "navigate"),
      Header("sec-fetch-user", "?1"),
      Header("sec-fetch-dest", "document"),
      Header("accept-encoding", "gzip, deflate, br"),
      Header("accept-language", "en-US,en;q=0.9")>>

\* the inserts of safari::safari_ios_17_4_1::header_initializer, in the
\* order made
SafariHeaders ==
    <<Header("accept", "text/html,application/xhtml+xml,application/xml;q=0.9,*/*;q=0.8"),
      Header("sec-fetch-site", "none"),
      Header("accept-encoding", "gzip, deflate, br"),
      Header("sec-fetch-mode", "navigate"),
      Header("user-agent",
             "Mozilla/5.0 (iPad; CPU OS 17_4_1 like Mac OS X) AppleWebKit/605.1.15 (KHTML, like Gecko) Version/17.4.1 Mobile/15E148 Safari/604.1"),
      Header("accept-language", "en-US,en;q=0.9"),
      Header("sec-fetch-dest", "document")>>

\* the inserts made one after the other
RECURSIVE insert_each(_, _)
insert_each(headers, entries) ==
    IF entries = <<>>
    THEN headers
    ELSE insert_each(HeaderMap_insert(headers, Head(entries).name, Head(entries).value),
                     Tail(entries))

\* header_initializer(headers) of the profile
header_initializer(impersonate, headers) ==
    insert_each(headers, IF impersonate = "Chrome117" THEN ChromeHeaders ELSE SafariHeaders)

\* the header maps a request holds before the initializer runs
InitialHeaders ==
    {<<>>,
     <<Header("accept", "*/*")>>,
     <<Header("x-api-source", "rn"), Header("user-agent", "app")>>}

------------------------------------------------------------------------------
(* The client specification: a client built for one profile initialises the *)
(* headers of a request, is given a stream by the connector, reads the      *)
(* stream's metadata and, on HTTP/2, sends the preface of the profile.      *)

Impersonates == {"Chrome117", "SafariIos17_4_1"}

InitClient ==
    /\ settings = HttpsLayerSettings_default
    /\ cache = with_connector_and_settings(settings).cache
    /\ key_index_ok = TRUE
    /\ inner = InnerOf(with_connector_and_settings(settings))
    /\ conns = [c \in ConnIds |-> IdleConn]
    /\ nextSession = 0
    /\ workload = [uris |-> {}, calls |-> 0]
    /\ client \in {[NoClient EXCEPT !.impersonate = Some(p), !.settings_order = Some(o),
                                     !.headers = h] :
                        p \in Impersonates, o \in SettingsOrders, h \in InitialHeaders}
    /\ layer = None
    /\ hist = <<>>

\* the connector's future resolves to a stream
established(stream) ==
    /\ client.stream = None
    /\ client' = [client EXCEPT !.stream = Some(stream)]
    /\ UNCHANGED <<settings, cache, key_index_ok, inner, conns, nextSession, workload,
                   layer, hist>>

\* the HTTP layer reads the metadata of the stream
read_connected ==
    /\ IsSome(client.stream)
    /\ client.connected = None
    /\ client' = [client EXCEPT !.connected = Some(connected(Unwrap(client.stream)))]
    /\ UNCHANGED <<settings, cache, key_index_ok, inner, conns, nextSession, workload,
                   layer, hist>>

\* the profile of the client, from get_settings
profile_of(cl) ==
    get_settings(Unwrap(cl.impersonate), ImpersonateSettings(Unwrap(cl.settings_order)))

\* on a connection that negotiated HTTP/2 the encoder sends the preface
send_preface ==
    /\ IsSome(client.connected)
    /\ Unwrap(client.connected).alpn = "H2"
    /\ client.preface = None
    /\ client' = [client EXCEPT !.preface = Some(encode_preface(profile_of(client).http2))]
    /\ UNCHANGED <<settings, cache, key_index_ok, inner, conns, nextSession, workload,
                   layer, hist>>

\* the header initializer of the profile runs on the request's headers
initialize_headers ==
    /\ client.initialized < MaxInits
    /\ client' = [client EXCEPT
           !.headers = header_initializer(profile_of(client).header_initializer, @),
           !.initialized = @ + 1]
    /\ UNCHANGED <<settings, cache, key_index_ok, inner, conns, nextSession, workload,
                   layer, hist>>

NextClient ==
    \/ initialize_headers
    \/ \E stream \in Streams : established(stream)
    \/ read_connected
    \/ send_preface

SpecClient == InitClient /\ [][NextClient]_vars

------------------------------------------------------------------------------
(* The layer specification: the caller keeps an HttpsLayer, makes           *)
(* connectors from it, clones them and registers callbacks on the layer and *)
(* on the connectors; when it has done so it makes one call on each         *)
(* connector, one after the other.                                          *)

ConnectorIds == 1..MaxConnectors

\* mutant: the clone does not hold the cache of the Inner it was made from
Inner_clone_without_cache(inn) == [inn EXCEPT !.cache = FALSE]

\* #[derive(Clone)] of Inner: the Arc of the cache and the Arcs of the
\* callbacks are cloned, so the clone holds the same cache and callbacks
Inner_clone(inn) == [cache |-> inn.cache, callback |-> inn.callback,
                     ssl_callback |-> inn.ssl_callback]

InitLayer ==
    /\ settings \in {session_cache(HttpsLayerSettings_default, e) : e \in BOOLEAN}
    /\ cache = with_connector_and_settings(settings).cache
    /\ key_index_ok = TRUE
    /\ inner = InnerOf(with_connector_and_settings(settings))
    /\ conns = [c \in ConnIds |-> IdleConn]
    /\ nextSession = 0
    /\ workload = [uris |-> SharedUris, calls |-> MaxConnectors]
    /\ client = NoClient
    /\ layer = [inner      |-> InnerOf(with_connector_and_settings(settings)),
                connectors |-> [k \in ConnectorIds |-> None]]
    /\ hist = <<>>

\* the caller has made no call yet
Building == \A c \in ConnIds : conns[c].pc = "idle"

\* HttpsLayer::set_callback and HttpsLayer::set_ssl_callback
HttpsLayer_set_callback(which) ==
    /\ Building
    /\ ~layer.inner[which]
    /\ layer' = [layer EXCEPT !.inner[which] = TRUE]
    /\ UNCHANGED <<settings, cache, key_index_ok, inner, conns, nextSession, workload,
                   client, hist>>

\* Layer::layer: connector k is made from the layer
Layer_layer(k) ==
    /\ Building
    /\ layer.connectors[k] = None
    /\ \A j \in ConnectorIds : j < k => IsSome(layer.connectors[j])
    /\ layer' = [layer EXCEPT !.connectors[k] = Some(Inner_clone(layer.inner))]
    /\ UNCHANGED <<settings, cache, key_index_ok, inner, conns, nextSession, workload,
                   client, hist>>

\* #[derive(Clone)] of HttpsConnector: connector k is a clone of connector j
HttpsConnector_clone(j, k) ==
    /\ Building
    /\ IsSome(layer.connectors[j])
    /\ layer.connectors[k] = None
    /\ \A i \in ConnectorIds : i < k => IsSome(layer.connectors[i])
    /\ layer' = [layer EXCEPT !.connectors[k] = Some(Inner_clone(Unwrap(layer.connectors[j])))]
    /\ UNCHANGED <<settings, cache, key_index_ok, inner, conns, nextSession, workload,
                   client, hist>>

\* HttpsConnector::set_callback and set_ssl_callback, on connector k
HttpsConnector_set_callback(k, which) ==
    /\ Building
    /\ IsSome(layer.connectors[k])
    /\ ~Unwrap(layer.connectors[k])[which]
    /\ layer' = [layer EXCEPT !.connectors[k] = Some([Unwrap(@) EXCEPT ![which] = TRUE])]
    /\ UNCHANGED <<settings, cache, key_index_ok, inner, conns, nextSession, workload,
                   client, hist>>

\* call(uri) on connector k, made once the futures of the calls on the
\* connectors before it have resolved; its future is connection k
call_on(k, uri) ==
    /\ IsSome(layer.connectors[k])
    /\ conns[k].pc = "idle"
    /\ k <= workload.calls
    /\ uri \in workload.uris
    /\ \A d \in ConnectorIds : d < k => conns[d].pc = "done"
    /\ conns' = [conns EXCEPT ![k] =
           [@ EXCEPT !.pc = "connecting",
                     !.uri = Some(uri),
                     !.connector = k,
                     !.tls_setup = IF is_tls_scheme(uri)
                                   THEN Some(Inner_clone(Unwrap(layer.connectors[k])))
                                   ELSE None,
                     !.connect_invoked = TRUE,
                     !.connects = @ + 1]]
    /\ UNCHANGED <<settings, cache, key_index_ok, inner, nextSession, workload, client,
                   layer, hist>>

NextLayer ==
    \/ \E which \in {"callback", "ssl_callback"} : HttpsLayer_set_callback(which)
    \/ \E k \in ConnectorIds : Layer_layer(k)
    \/ \E j \in ConnectorIds, k \in ConnectorIds : HttpsConnector_clone(j, k)
    \/ \E k \in ConnectorIds, which \in {"callback", "ssl_callback"} :
           HttpsConnector_set_callback(k, which)
    \/ \E k \in ConnectorIds, uri \in SharedUris : call_on(k, uri)
    \/ \E c \in ConnIds, fail \in FailPoints : connect_ok_tls(c, fail)
    \/ \E c \in ConnIds : handshake_ok(c)
    \/ \E c \in ConnIds : new_session(c)

SpecLayer == InitLayer /\ [][NextLayer]_vars

------------------------------------------------------------------------------
(* The cache-level specification: insert and take applied in any order to   *)
(* the cache of a layer whose settings enable it.                           *)

InitCache ==
    /\ settings \in {s \in SettingsSet : s.session_cache}
    /\ cache = with_connector_and_settings(settings).cache
    /\ key_index_ok = TRUE
    /\ inner = InnerOf(with_connector_and_settings(settings))
    /\ conns = [c \in ConnIds |-> IdleConn]
    /\ nextSession = 0
    /\ workload = [uris |-> {}, calls |-> 0]
    /\ client = NoClient
    /\ layer = None
    /\ hist = <<>>

\* a new session arrives for a handle whose ex-data holds key
CacheInsert(key) ==
    /\ Len(hist) < MaxOps
    /\ nextSession' = nextSession + 1
    /\ cache' = new_session_callback(cache, Some(key), nextSession')
    /\ hist' = Append(hist, [op |-> "insert", key |-> key,
                             session |-> Some(nextSession'),
                             before |-> Unwrap(cache).sessions[key],
                             after |-> Unwrap(cache').sessions[key]])
    /\ UNCHANGED <<settings, key_index_ok, inner, conns, workload, client, layer>>

\* a connection being set up looks key up
CacheTake(key) ==
    /\ Len(hist) < MaxOps
    /\ LET r == lookup_session(cache, key)
       IN  /\ cache' = r.cache
           /\ hist' = Append(hist, [op |-> "take", key |-> key,
                                    session |-> r.session,
                                    before |-> Unwrap(cache).sessions[key],
                                    after |-> Unwrap(r.cache).sessions[key]])
    /\ UNCHANGED <<settings, key_index_ok, inner, conns, nextSession, workload, client, layer>>

\* the keys the cache-level specification works on
CacheKeys == {SessionKey(HostA, DefaultPort), SessionKey(HostB, 8443)}

NextCache ==
    \/ \E key \in CacheKeys : CacheInsert(key)
    \/ \E key \in CacheKeys : CacheTake(key)

SpecCache == InitCache /\ [][NextCache]_vars

------------------------------------------------------------------------------
(* Claims about the cache, stated over the operations performed on one key  *)

\* the operations of hist that were made on key, in order
KeyHist(key) == SelectSeq(hist, LAMBDA e : e.key = key)

Max(S) == CHOOSE x \in S : \A y \in S : y <= x

C2_CapacityBound ==
    \A key \in Keys :
        Len(Unwrap(cache).sessions[key]) <= settings.session_cache_capacity

\* an insert was made into a key that already held capacity sessions
C2_Witness ==
    \E i \in 1..Len(hist) :
        /\ hist[i].op = "insert"
        /\ Len(hist[i].before) = settings.session_cache_capacity
        /\ Len(hist[i].after) = settings.session_cache_capacity

\* C3: after capacity+1 inserts on a key with no take of that key in between,
\* the first of them is no longer retained and no later take returns it,
\* while the capacity sessions inserted after it are all retained, in order.
C3_FifoEviction ==
    \A key \in CacheKeys :
        LET h == KeyHist(key)
            n == settings.session_cache_capacity
        IN  \A i \in 1..Len(h) :
                (i + n <= Len(h) /\ \A j \in i..(i + n) : h[j].op = "insert")
                => /\ Unwrap(h[i].session) \notin Range(h[i + n].after)
                   /\ h[i + n].after = [j \in 1..n |-> Unwrap(h[i + j].session)]
                   /\ \A m \in (i + n + 1)..Len(h) :
                          h[m].op = "take" => h[m].session /= h[i].session

\* capacity+1 inserts on a key and then a take of it that returns a session
C3_Witness ==
    \E key \in CacheKeys :
        LET h == KeyHist(key)
            n == settings.session_cache_capacity
        IN  \E i \in 1..Len(h) :
                /\ i + n + 1 <= Len(h)
                /\ \A j \in i..(i + n) : h[j].op = "insert"
                /\ h[i + n + 1].op = "take"
                /\ IsSome(h[i + n + 1].session)

\* C4: a take of a key that retains sessions returns the most recently
\* inserted of them (sessions are numbered in the order they were produced)
\* and removes exactly that one; the other sessions of the key keep their
\* order and every other key is unchanged.  A take of an empty key returns
\* none and changes nothing.
C4_TakeMostRecent ==
    [][(Len(hist') = Len(hist) + 1 /\ hist'[Len(hist')].op = "take")
       => LET e == hist'[Len(hist')]
              q == Unwrap(cache).sessions[e.key]
          IN  IF q = <<>>
              THEN e.session = None /\ cache' = cache
              ELSE /\ e.session = Some(Max(Range(q)))
                   /\ Unwrap(cache').sessions =
                          [Unwrap(cache).sessions EXCEPT
                              ![e.key] = SelectSeq(q, LAMBDA s : s /= Max(Range(q)))]
      ]_vars

\* a take was just made on a key holding two sessions while another key
\* holds one
C4_Witness ==
    /\ hist /= <<>>
    /\ LET e == hist[Len(hist)]
       IN  /\ e.op = "take"
           /\ Len(e.before) >= 2
           /\ IsSome(e.session)
           /\ \E other \in CacheKeys \ {e.key} : Unwrap(cache).sessions[other] /= <<>>

------------------------------------------------------------------------------
(* Claims about the connector *)

\* the URI a connection was called with
UriOf(c) == Unwrap(conns[c].uri)

Called(c) == conns[c].pc /= "idle"

\* the URI's scheme is https or wss
TlsUri(c) == UriOf(c).scheme \in {Some("https"), Some("wss")}

\* C5: whatever the interleaving of the connections that share the cache, a
\* session is handed out to at most one of them: no two connections were
\* handed, or have set on their configuration, the same session.
C5_SessionHandedOutOnce ==
    \A c1 \in ConnIds : \A c2 \in ConnIds \ {c1} :
        /\ IsSome(conns[c1].taken) => conns[c1].taken /= conns[c2].taken
        /\ IsSome(conns[c1].session) => conns[c1].session /= conns[c2].session

\* two connections to the same key are handshaking at once; the only
\* session ever cached is set on one of them and the other has none
C5_Witness ==
    \E c1 \in ConnIds : \E c2 \in ConnIds \ {c1} :
        /\ conns[c1].pc = "handshaking" /\ conns[c2].pc = "handshaking"
        /\ conns[c1].ex_data = conns[c2].ex_data
        /\ nextSession = 1
        /\ conns[c1].session = Some(1)
        /\ conns[c2].session = None

\* C6: a call for a URI whose scheme is neither https nor wss never runs
\* TLS setup, never touches the cache and never starts a handshake, and when
\* it succeeds it returns the plaintext variant; a successful call for an
\* https or wss URI returns the TLS variant.
C6_SchemeDispatch ==
    \A c \in ConnIds :
        Called(c) =>
            IF TlsUri(c)
            THEN conns[c].result /= "Http"
            ELSE /\ conns[c].log = <<>>
                 /\ conns[c].taken = None
                 /\ conns[c].inserted = {} /\ conns[c].removed = {}
                 /\ ~conns[c].handshake_started
                 /\ conns[c].result \in {"pending", "Http", "TransportError"}
                 /\ conns[c].result = "Http" => conns[c].stream = "returned"

\* a call without a scheme has returned the plaintext variant
C6_Witness ==
    \E c \in ConnIds :
        /\ Called(c)
        /\ UriOf(c).scheme = None
        /\ conns[c].result = "Http"

\* C7 as stated: for an https or wss URI whose host is missing or empty the
\* plaintext service is never called and the call ends in a URI error.
C7_EmptyHostFailsBeforeIO ==
    \A c \in ConnIds :
        (Called(c) /\ TlsUri(c) /\ UriOf(c).host \in {None, Some(Empty)})
        => /\ ~conns[c].connect_invoked
           /\ conns[c].pc = "done" => conns[c].result = "UriError"

\* a connection whose setup or handshake returned an error
Failed(c) == conns[c].result \in {"SetupError", "HandshakeError"}

\* C8 as stated: a connection whose setup or handshake fails has neither
\* put a session into the cache nor removed one from it.
C8_FailureLeavesCache_AsStated ==
    \A c \in ConnIds :
        Failed(c) => conns[c].inserted = {} /\ conns[c].removed = {}

\* C8 (amended): a connection whose setup or handshake fails has put no
\* session into the cache; it has removed nothing when its setup failed
\* before the cache was consulted, and otherwise exactly the session the
\* cache handed to its setup, if there was one.
C8_FailureLeavesCache ==
    \A c \in ConnIds :
        Failed(c) =>
            /\ conns[c].inserted = {}
            /\ conns[c].removed = Range(conns[c].taken)
            /\ conns[c].error \in {Some("configure"), Some("callback")}
               => conns[c].removed = {}

\* a handshake failed on a connection that had been handed a session
C8_Witness ==
    \E c \in ConnIds :
        /\ conns[c].result = "HandshakeError"
        /\ IsSome(conns[c].taken)
        /\ conns[c].removed = Range(conns[c].taken)

\* C9 as stated: a connection whose future was dropped has neither removed
\* a session from the cache nor put one into it.
C9_DropLeavesCache_AsStated ==
    \A c \in ConnIds :
        conns[c].pc = "dropped" => conns[c].inserted = {} /\ conns[c].removed = {}

\* C9 (amended): a connection whose future was dropped never puts a session
\* into the cache; dropped during the plaintext connect it has not touched
\* the cache, dropped during the handshake it has removed exactly the
\* session the cache handed to its setup, if there was one.
C9_DropLeavesCache ==
    \A c \in ConnIds :
        conns[c].pc = "dropped" =>
            /\ conns[c].inserted = {}
            /\ conns[c].stream = "released"
            /\ conns[c].dropped_at = "connecting"
               => conns[c].removed = {} /\ conns[c].log = <<>>
            /\ conns[c].dropped_at = "handshaking"
               => conns[c].removed = Range(conns[c].taken)

\* a future was dropped during the handshake after it had been handed a
\* session
C9_Witness ==
    \E c \in ConnIds :
        /\ conns[c].pc = "dropped"
        /\ conns[c].dropped_at = "handshaking"
        /\ IsSome(conns[c].taken)

\* the callback named step was invoked by c's setup and returned an error
CallbackFailed(c, step) == conns[c].fail = step /\ step \in Range(conns[c].log)

\* C10: when the configuration callback or the raw-handle callback returns
\* an error, the call returns a TLS setup error, no handshake is started and
\* the plaintext stream is released, not returned.
C10_CallbackErrorAborts ==
    \A c \in ConnIds :
        (CallbackFailed(c, "callback") \/ CallbackFailed(c, "ssl_callback"))
        => /\ conns[c].pc = "done"
           /\ conns[c].result = "SetupError"
           /\ ~conns[c].handshake_started
           /\ conns[c].stream = "released"

\* the raw-handle callback of a connection returned an error
C10_Witness ==
    \E c \in ConnIds :
        /\ CallbackFailed(c, "ssl_callback")
        /\ conns[c].result = "SetupError"

------------------------------------------------------------------------------
(* Claims about the host given to TLS setup and the session key *)

\* the host of the URI a connection was called with
UriHost(c) == Unwrap(UriOf(c).host)

\* setup_ssl was entered by the connection
SetupRan(c) == conns[c].log /= <<>>

\* the host begins with "[", ends with "]" and what lies between parses as
\* an IPv6 address
BracketedIpv6(h) ==
    /\ Len(h) >= 2
    /\ h[1] = "[" /\ h[Len(h)] = "]"
    /\ is_ipv6(SubSeq(h, 2, Len(h) - 1))

\* C11: the host given to TLS setup, and the host of the session key
\* attached to the handle, is the URI's host without its first and last
\* character exactly when the URI's host begins with "[", ends with "]" and
\* the interior parses as an IPv6 address; every other host is given to
\* setup and stored in the key unchanged.
C11_BracketStripping ==
    \A c \in ConnIds :
        SetupRan(c) =>
            LET h    == UriHost(c)
                want == IF BracketedIpv6(h) THEN SubSeq(h, 2, Len(h) - 1) ELSE h
            IN  /\ conns[c].host = Some(want)
                /\ IsSome(conns[c].ex_data) => Unwrap(conns[c].ex_data).host = want

\* a connection to [::1] carries the key of ::1 and a connection to [a]
\* carries the key of [a]
C11_Witness ==
    \E c1 \in ConnIds : \E c2 \in ConnIds \ {c1} :
        /\ SetupRan(c1) /\ SetupRan(c2)
        /\ UriHost(c1) = HostV6
        /\ conns[c1].ex_data = Some(SessionKey(<<":", ":", "1">>, DefaultPort))
        /\ UriHost(c2) = HostBracketed
        /\ conns[c2].ex_data = Some(SessionKey(HostBracketed, DefaultPort))

\* the (host, port) key setup_ssl builds for the connection
LookupKey(c) == SessionKey(Unwrap(conns[c].host), port_or_default(UriOf(c)))

\* the keys under which a cache holds the session
KeysHolding(ch, s) ==
    IF IsSome(ch) THEN {k \in Keys : s \in Range(Unwrap(ch).sessions[k])} ELSE {}

\* C12: a session produced on an established connection is inserted under
\* exactly the (host, port) key that connection's setup looked up, and under
\* no other key; a setup that consults the cache while it holds a session
\* for its key is handed the most recent one and sets it on its
\* configuration, and a setup whose lookup misses is handed none and sets
\* none.
C12_ResumptionByKey ==
    [][\A c \in ConnIds :
        /\ (conns[c].inserted' /= conns[c].inserted) =>
              \A s \in conns[c].inserted' \ conns[c].inserted :
                  KeysHolding(cache', s) = {LookupKey(c)}
        /\ (conns[c].log = <<>> /\ "cache_get" \in Range(conns[c].log')) =>
              LET q == Unwrap(cache).sessions[LookupKey(c)']
              IN  IF q = <<>>
                  THEN conns[c].taken' = None /\ conns[c].session' = None
                  ELSE /\ conns[c].taken' = Some(q[Len(q)])
                       /\ conns[c].handshake_started' => conns[c].session' = Some(q[Len(q)])
      ]_vars

\* the session inserted by a first connection to [::1] is set on the
\* handshake of the second connection to it
C12_Witness ==
    \E c1 \in ConnIds : \E c2 \in ConnIds \ {c1} :
        /\ SetupRan(c1) /\ SetupRan(c2)
        /\ UriHost(c1) = HostV6 /\ UriHost(c2) = HostV6
        /\ conns[c1].taken = None /\ conns[c1].result = "Https"
        /\ conns[c2].handshake_started
        /\ IsSome(conns[c2].session)
        /\ Unwrap(conns[c2].session) \in conns[c1].inserted

\* the host with its upper-case letters replaced by the lower-case ones
to_lowercase(h) == [i \in 1..Len(h) |-> IF h[i] = "A" THEN "a" ELSE h[i]]

\* C13 as stated: the host of a session key is lower-case, so two
\* connections whose URIs have the same port and hosts that differ only in
\* letter case carry the same session key.
C13_LowercasedKeys ==
    \A c1 \in ConnIds : \A c2 \in ConnIds :
        (/\ IsSome(conns[c1].ex_data) /\ IsSome(conns[c2].ex_data)
         /\ to_lowercase(UriHost(c1)) = to_lowercase(UriHost(c2))
         /\ port_or_default(UriOf(c1)) = port_or_default(UriOf(c2)))
        => /\ conns[c1].ex_data = conns[c2].ex_data
           /\ Unwrap(conns[c1].ex_data).host = to_lowercase(Unwrap(conns[c1].host))

------------------------------------------------------------------------------
(* Claims about the stream, the HTTP/2 preface and the default headers *)

\* the stream is the TLS variant and the handshake selected exactly h2
TlsWithH2(stream) ==
    stream.variant = "Https" /\ stream.selected_alpn_protocol = Some("h2")

ChromeSettingsFrame ==
    <<[id |-> "HEADER_TABLE_SIZE",    value |-> 65536],
      [id |-> "ENABLE_PUSH",          value |-> 0],
      [id |-> "INITIAL_WINDOW_SIZE",  value |-> 6291456],
      [id |-> "MAX_HEADER_LIST_SIZE", value |-> 262144]>>

\* the identifiers of a SETTINGS frame, in the order sent
IdsSent(frame) == [i \in 1..Len(frame.settings) |-> frame.settings[i].id]

\* seq without the occurrences of x
RECURSIVE Without(_, _)
Without(seq, x) ==
    IF seq = <<>> THEN <<>>
    ELSE (IF Head(seq) = x THEN <<>> ELSE <<Head(seq)>>) \o Without(Tail(seq), x)

Names(headers) == [i \in 1..Len(headers) |-> headers[i].name]

\* the order in which each profile's initializer leaves its headers in a
\* map that was empty
ChromeNames ==
    <<"sec-ch-ua", "sec-ch-ua-mobile", "sec-ch-ua-platform", "upgrade-insecure-requests",
      "user-agent", "accept", "sec-fetch-site", "sec-fetch-mode", "sec-fetch-user",
      "sec-fetch-dest", "accept-encoding", "accept-language">>
SafariNames ==
    <<"accept", "sec-fetch-site", "accept-encoding", "sec-fetch-mode", "user-agent",
      "accept-language", "sec-fetch-dest">>

\* C16: a run of the header initializer of Chrome117 or SafariIos17_4_1 on
\* an empty header map leaves the profile's headers, one entry per name, in
\* the profile's fixed order, and a run on a map the initializer has already
\* run on leaves the map as it was.
C16_HeaderInitializer ==
    [][client.initialized' = client.initialized + 1 =>
        /\ client.headers = <<>> =>
              Names(client.headers') =
                  IF client.impersonate = Some("Chrome117") THEN ChromeNames ELSE SafariNames
        /\ client.initialized >= 1 => client.headers' = client.headers
      ]_vars

\* the Safari initializer has run twice on a map that was empty
C16_Witness ==
    /\ client.impersonate = Some("SafariIos17_4_1")
    /\ client.initialized = 2
    /\ Names(client.headers) = SafariNames

------------------------------------------------------------------------------
(* Claims about the order of the steps of a connection *)

\* the positions of a step in the steps a setup performed
Positions(c, step) == {i \in 1..Len(conns[c].log) : conns[c].log[i] = step}

\* step a was performed, and before every performance of step b
Precedes(c, a, b) ==
    /\ Positions(c, a) /= {}
    /\ \A i \in Positions(c, a), j \in Positions(c, b) : i < j

\* C17 as stated: whenever a setup has invoked the configuration callback or
\* the raw-handle callback, it had attached the session key as ex-data
\* before, and, if the connector has a cache, consulted the cache before.
C17_CallbacksAfterCacheAndKey ==
    \A c \in ConnIds : \A cb \in {"callback", "ssl_callback"} :
        Positions(c, cb) /= {} =>
            /\ Precedes(c, "set_ex_data", cb)
            /\ IsSome(cache) => Precedes(c, "cache_get", cb)

\* the errors a call returns
Errors == {"TransportError", "UriError", "SetupError", "HandshakeError"}

\* the order of the positions of a future
PcRank(pc) ==
    CASE pc = "idle" -> 0
      [] pc = "connecting" -> 1
      [] pc = "handshaking" -> 2
      [] pc \in {"done", "dropped"} -> 3

\* C18: within one call the plaintext connect is invoked exactly once; TLS
\* setup runs at most once and only after the connect has resolved to a
\* stream, and the handshake starts only after a setup that succeeded; a
\* call never goes back to an earlier step, and once it has returned a
\* connect, setup or handshake error nothing more is done for it; a connect
\* failure means no TLS setup, no cache access and no handshake.
C18_StepsOnceInOrder ==
    /\ [](\A c \in ConnIds :
            /\ conns[c].connects = (IF Called(c) THEN 1 ELSE 0)
            /\ SetupRan(c) => conns[c].stream /= "none"
            /\ conns[c].handshake_started => SetupRan(c) /\ conns[c].error = None
            /\ conns[c].result = "TransportError" =>
                  /\ ~SetupRan(c) /\ ~conns[c].handshake_started
                  /\ conns[c].taken = None
                  /\ conns[c].inserted = {} /\ conns[c].removed = {})
    /\ [][\A c \in ConnIds :
            /\ PcRank(conns[c].pc') >= PcRank(conns[c].pc)
            /\ SetupRan(c) => conns[c].log' = conns[c].log
            /\ conns[c].result \in Errors => conns[c]' = conns[c]]_vars

\* a call whose connect failed has returned the transport error
C18_Witness ==
    \E c \in ConnIds :
        /\ conns[c].result = "TransportError"
        /\ conns[c].connects = 1
        /\ TlsUri(c)

\* the Inner that the call of a TLS connection cloned
SetupInner(c) == Unwrap(conns[c].tls_setup)

\* C19: a TLS connection invokes the configuration callback at most once,
\* only if one is registered, and before the configuration is turned into
\* the TLS handle; it invokes the raw-handle callback at most once, only if
\* one is registered, and only after the handle was made; when the
\* configuration callback returns an error the handle is not made and the
\* raw-handle callback is not invoked.
C19_HookOrdering ==
    \A c \in ConnIds :
        SetupRan(c) =>
            /\ Cardinality(Positions(c, "callback")) <= 1
            /\ Cardinality(Positions(c, "ssl_callback")) <= 1
            /\ Positions(c, "callback") /= {} => SetupInner(c).callback
            /\ Positions(c, "ssl_callback") /= {} => SetupInner(c).ssl_callback
            /\ \A i \in Positions(c, "callback"), j \in Positions(c, "into_ssl") : i < j
            /\ Positions(c, "ssl_callback") /= {} => Precedes(c, "into_ssl", "ssl_callback")
            /\ (SetupInner(c).callback /\ Positions(c, "into_ssl") /= {})
                  => Positions(c, "callback") /= {}
            /\ CallbackFailed(c, "callback") =>
                  /\ Positions(c, "into_ssl") = {}
                  /\ Positions(c, "ssl_callback") = {}

\* the configuration callback of a connection failed while a raw-handle
\* callback was registered
C19_Witness ==
    \E c \in ConnIds :
        /\ SetupRan(c)
        /\ SetupInner(c).ssl_callback
        /\ CallbackFailed(c, "callback")
        /\ conns[c].pc = "done"

------------------------------------------------------------------------------
(* Claims about the layer and its connectors *)

\* connector k exists
Made(k) == IsSome(layer.connectors[k])

\* every connector and every connection holds the cache the layer holds
HoldLayerCache ==
    /\ \A k \in ConnectorIds :
          Made(k) => Unwrap(layer.connectors[k]).cache = layer.inner.cache
    /\ \A c \in ConnIds :
          IsSome(conns[c].tls_setup) => SetupInner(c).cache = layer.inner.cache

\* a setup that consults the cache is handed the most recent session the
\* cache holds for its key
TakesFromLayerCache ==
    \A c \in ConnIds :
        (conns[c].log = <<>> /\ "cache_get" \in Range(conns[c].log')) =>
            LET q == Unwrap(cache).sessions[LookupKey(c)']
            IN  conns[c].taken' = (IF q = <<>> THEN None ELSE Some(q[Len(q)]))

\* a step that makes or changes a connector changes nothing else of the
\* layer, and makes the connector as a copy
ConnectorsApart ==
    \A k \in ConnectorIds :
        layer.connectors[k]' /= layer.connectors[k] =>
            /\ layer.inner' = layer.inner
            /\ \A j \in ConnectorIds \ {k} : layer.connectors[j]' = layer.connectors[j]
            /\ ~Made(k) =>
                  \/ layer.connectors[k]' = Some(layer.inner)
                  \/ \E j \in ConnectorIds \ {k} :
                        Made(j) /\ layer.connectors[k]' = layer.connectors[j]

\* C20: every connector made from the layer, every clone of a connector and
\* every connection made on them holds the one cache of the layer, so a
\* setup that consults the cache is handed the most recent session any of
\* their connections inserted for its key; a connector is made as a copy of
\* the layer's Inner or of the connector it is cloned from, and a callback
\* registered on a connector changes that connector alone: not the layer
\* and no other connector.
C20_SharedCacheOwnCallbacks ==
    /\ []HoldLayerCache
    /\ [][TakesFromLayerCache /\ ConnectorsApart]_vars

\* connector 2 is a copy on which alone a callback was registered; its
\* connection ran the callback and was handed the session that the
\* connection of connector 1 had inserted
C20_Witness ==
    /\ Made(1) /\ Made(2)
    /\ ~layer.inner.callback
    /\ ~Unwrap(layer.connectors[1]).callback
    /\ Unwrap(layer.connectors[2]).callback
    /\ conns[1].result = "Https" /\ conns[1].log /= <<>>
    /\ "callback" \notin Range(conns[1].log)
    /\ "callback" \in Range(conns[2].log)
    /\ IsSome(conns[2].taken)
    /\ Unwrap(conns[2].taken) \in conns[1].inserted

\* the steps of a setup that succeeds without a cache, for the Inner given
StepsWithoutCache(inn) ==
    <<"configure">>
    \o (IF inn.callback THEN <<"callback">> ELSE <<>>)
    \o <<"key_index", "set_ex_data", "into_ssl">>
    \o (IF inn.ssl_callback THEN <<"ssl_callback">> ELSE <<>>)

\* p is the beginning of q
IsPrefix(p, q) == Len(p) <= Len(q) /\ SubSeq(q, 1, Len(p)) = p

\* C21: when the settings disable session caching there is no cache, in the
\* layer and in every connector, and no new-session callback: over all the
\* connections no session is stored or delivered, none is taken and none is
\* set on a configuration, and no setup consults a cache.  The rest of the
\* setup is as with a cache: the steps are configure, the configuration
\* callback if registered, the key attached as ex-data, the handle made,
\* the raw-handle callback if registered, and a setup that succeeds has
\* attached the (host, port) key.
C21_CacheDisabled ==
    ~settings.session_cache =>
        /\ cache = None
        /\ ~layer.inner.cache
        /\ \A k \in ConnectorIds : Made(k) => ~Unwrap(layer.connectors[k]).cache
        /\ nextSession = 0
        /\ \A c \in ConnIds :
              /\ conns[c].taken = None /\ conns[c].session = None
              /\ conns[c].inserted = {} /\ conns[c].removed = {}
              /\ conns[c].tickets = 0
              /\ SetupRan(c) =>
                    /\ IsPrefix(conns[c].log, StepsWithoutCache(SetupInner(c)))
                    /\ conns[c].error = None =>
                          /\ conns[c].log = StepsWithoutCache(SetupInner(c))
                          /\ conns[c].ex_data = Some(LookupKey(c))
                          /\ conns[c].handshake_started

\* without a cache two connections were established one after the other,
\* the second on a connector with both callbacks registered
C21_Witness ==
    /\ ~settings.session_cache
    /\ conns[1].result = "Https" /\ conns[2].result = "Https"
    /\ conns[1].ex_data = conns[2].ex_data /\ IsSome(conns[2].ex_data)
    /\ conns[2].log = <<"configure", "callback", "key_index", "set_ex_data",
                         "into_ssl", "ssl_callback">>
    /\ conns[2].session = None

====
